---- MODULE Spec2Model ----
(***************************************************************************)
(* Fingerprint label preview: the script parser and the canvas renderer of *)
(* src/app.js, and the static file server of src/server.js.                *)
(*                                                                         *)
(* Text is modelled as a sequence of one-character strings, so that        *)
(* splitting, trimming, prefix tests and the three regular expressions are *)
(* computed character by character, as the code computes them.             *)
(***************************************************************************)
EXTENDS Integers, Sequences, FiniteSets, TLC

\* ------------------------------------------------------------------ bounds
\* Most lines in a script the parser-only specification is started with.
MaxLines == 2
\* Most lines in a script the full parse-and-render specification is started with.
MaxRenderLines == 3
\* Most characters after the leading "/" of a request path.
MaxPath == 5

\* --------------------------------------------------------------- constants
\* LABEL.widthDots, LABEL.heightDots
LabelWidthDots == 1624
LabelHeightDots == 2436

\* ------------------------------------------------------ character classes
DigitChars == <<"0","1","2","3","4","5","6","7","8","9">>
UpperChars == {"A","B","C","D","E","F","G","H","I","J","K","L","M","N","O","P","Q","R","S","T","U","V","W","X","Y","Z"}
\* the members of \s (and of what trim() strips) that the inputs use
SpaceChars == {" ", "\t", "\r", "\n"}

IsDigit(c) == \E k \in 1..10 : DigitChars[k] = c
IsUpper(c) == c \in UpperChars
IsSpace(c) == c \in SpaceChars
DigitValue(c) == (CHOOSE k \in 1..10 : DigitChars[k] = c) - 1

\* ------------------------------------------------------- string functions
\* text.split(/\r?\n/): the pieces between the terminators, a terminator being
\* a "\n" together with the "\r" right before it, if there is one
SplitLines(t) ==
  LET breaks == {n \in 1..Len(t) : t[n] = "\n"}
      \* the j-th "\n" of t, or Len(t) + 1 after the last
      brk(j) == IF j > Cardinality(breaks) THEN Len(t) + 1
                ELSE CHOOSE n \in breaks : Cardinality({q \in breaks : q < n}) = j - 1
      first(j) == IF j = 1 THEN 1 ELSE brk(j - 1) + 1
      last(j) == IF brk(j) <= Len(t) /\ brk(j) - 1 >= first(j) /\ t[brk(j) - 1] = "\r"
                 THEN brk(j) - 2 ELSE brk(j) - 1
  IN [j \in 1..(Cardinality(breaks) + 1) |-> SubSeq(t, first(j), last(j))]

\* raw.trim()
Trim(s) ==
  LET keep == {k \in 1..Len(s) : ~IsSpace(s[k])}
  IN IF keep = {} THEN <<>>
     ELSE SubSeq(s, CHOOSE a \in keep : \A b \in keep : a <= b,
                    CHOOSE a \in keep : \A b \in keep : a >= b)

\* line.startsWith(p)
StartsWith(s, p) == Len(s) >= Len(p) /\ SubSeq(s, 1, Len(p)) = p

\* Number(m[k]) of a capture of -?\d+ : decimal digits, most significant first
RECURSIVE DigitsValue(_)
DigitsValue(ds) ==
  IF ds = <<>> THEN 0
  ELSE 10 * DigitsValue(SubSeq(ds, 1, Len(ds) - 1)) + DigitValue(ds[Len(ds)])

Number(s) == IF s[1] = "-" THEN 0 - DigitsValue(Tail(s)) ELSE DigitsValue(s)

\* ------------------------------------------------- regular-expression parts
\* Each part takes the index the match has reached (0: the match has failed)
\* and returns the index after the part, or 0. Every part is followed by a
\* part that cannot start with a character the part accepts, so the greedy
\* match is the only match.

\* a literal character
Lit(s, k, c) == IF k # 0 /\ k <= Len(s) /\ s[k] = c THEN k + 1 ELSE 0

\* [A-Z]
Upper(s, k) == IF k # 0 /\ k <= Len(s) /\ IsUpper(s[k]) THEN k + 1 ELSE 0

\* the index after the longest run of characters of class cls starting at k
RECURSIVE RunEnd(_, _, _)
RunEnd(s, k, cls) == IF k <= Len(s) /\ s[k] \in cls THEN RunEnd(s, k + 1, cls) ELSE k

\* \s*
Ws0(s, k) == IF k = 0 THEN 0 ELSE RunEnd(s, k, SpaceChars)

\* \s+
Ws1(s, k) == IF k # 0 /\ k <= Len(s) /\ IsSpace(s[k]) THEN RunEnd(s, k, SpaceChars) ELSE 0

\* \d+ written as -?\d+ : the fault of giving every numeric field the
\* coordinates' pattern
DigitsAllowingSign(s, k) ==
  LET from == IF k # 0 /\ k <= Len(s) /\ s[k] = "-" THEN k + 1 ELSE k
  IN IF from # 0 /\ from <= Len(s) /\ IsDigit(s[from])
     THEN RunEnd(s, from, {DigitChars[d] : d \in 1..10}) ELSE 0

\* \d+
Digits(s, k) ==
  IF k # 0 /\ k <= Len(s) /\ IsDigit(s[k]) THEN RunEnd(s, k, {DigitChars[d] : d \in 1..10}) ELSE 0

\* -?\d+
SignedDigits(s, k) == IF k # 0 /\ k <= Len(s) /\ s[k] = "-" THEN Digits(s, k + 1) ELSE Digits(s, k)

\* \"([^\"]*)\" : the index after the closing quote
RECURSIVE NonQuoteEnd(_, _)
NonQuoteEnd(s, k) == IF k <= Len(s) /\ s[k] # "\"" THEN NonQuoteEnd(s, k + 1) ELSE k

Quoted(s, k) ==
  IF k # 0 /\ k <= Len(s) /\ s[k] = "\"" THEN Lit(s, NonQuoteEnd(s, k + 1), "\"") ELSE 0

\* the capture between indices a (inclusive) and b (exclusive)
Group(s, a, b) == SubSeq(s, a, b - 1)

NoMatch == [matched |-> FALSE]

\* /^!F\s+T\s+S\s+(-?\d+)\s+(-?\d+)\s+([A-Z])\s+(\d+)\s+(\d+)\s+(\d+)\s+\"([^\"]*)\"\s*$/
\* and the same shape with C for T (the barcode pattern)
MatchQuotedShape(line, letter) ==
  LET a1 == Ws1(line, Lit(line, Lit(line, 1, "!"), "F"))
      a2 == Ws1(line, Lit(line, a1, letter))
      g1 == Ws1(line, Lit(line, a2, "S"))
      e1 == SignedDigits(line, g1)
      g2 == Ws1(line, e1)
      e2 == SignedDigits(line, g2)
      g3 == Ws1(line, e2)
      e3 == Upper(line, g3)
      g4 == Ws1(line, e3)
      e4 == Digits(line, g4)
      g5 == Ws1(line, e4)
      e5 == Digits(line, g5)
      g6 == Ws1(line, e5)
      e6 == Digits(line, g6)
      g7 == Ws1(line, e6)
      e7 == Quoted(line, g7)
      end == Ws0(line, e7)
  IN IF end = Len(line) + 1
     THEN [matched |-> TRUE,
           m1 |-> Group(line, g1, e1), m2 |-> Group(line, g2, e2),
           m3 |-> line[g3],
           m4 |-> Group(line, g4, e4), m5 |-> Group(line, g5, e5),
           m6 |-> Group(line, g6, e6), m7 |-> Group(line, g7 + 1, e7 - 1)]
     ELSE NoMatch

MatchText(line) == MatchQuotedShape(line, "T")

MatchBarcode(line) == MatchQuotedShape(line, "C")

\* /^!F\s+B\s+([A-Z])\s+(-?\d+)\s+(-?\d+)\s+L\s+(\d+)\s+(\d+)\s*$/
MatchLine(line) ==
  LET a1 == Ws1(line, Lit(line, Lit(line, 1, "!"), "F"))
      g1 == Ws1(line, Lit(line, a1, "B"))
      e1 == Upper(line, g1)
      g2 == Ws1(line, e1)
      e2 == SignedDigits(line, g2)
      g3 == Ws1(line, e2)
      e3 == SignedDigits(line, g3)
      g4 == Ws1(line, Lit(line, Ws1(line, e3), "L"))
      e4 == Digits(line, g4)
      g5 == Ws1(line, e4)
      e5 == Digits(line, g5)
      end == Ws0(line, e5)
  IN IF end = Len(line) + 1
     THEN [matched |-> TRUE,
           m1 |-> line[g1],
           m2 |-> Group(line, g2, e2), m3 |-> Group(line, g3, e3),
           m4 |-> Group(line, g4, e4), m5 |-> Group(line, g5, e5)]
     ELSE NoMatch

\* ----------------------------------------------------------------- state
VARIABLES
  text,      \* the script handed to parseFingerprintScript
  lines,     \* text.split(/\r?\n/)
  i,         \* the parse loop's index (0-based, as in the code)
  commands,  \* the commands pushed so far
  warnings,  \* the warnings pushed so far
  pc,        \* where doRender is: "parse", "parsed", "lines", "barcodes", "hash", "bars", "texts", "rendered", "done"
  canvas,    \* the canvas backing-store size set by render, and whether it gave a context
  ops,       \* the drawing operations issued on the context, in order
  k,         \* the render loops' index into commands (1-based)
  box,       \* the barcode placeholder being filled with bars
  barX,      \* the bar loop's cursor x
  barState,  \* the bar loop's 32-bit generator state
  bar,       \* the bar the loop produced last
  hash,      \* hashStringToInt's h
  hashAt,    \* hashStringToInt's loop index (0-based)
  status,    \* the status line doRender sets
  request,   \* the decoded-to-be pathname of the request the server is handling
  response   \* what the server answered

vars == <<text, lines, i, commands, warnings, pc, canvas, ops, k, box, barX, barState, bar, hash, hashAt, status, request, response>>

parserVars == <<text, lines, i, commands, warnings>>
renderVars == <<canvas, ops, k, box, barX, barState, bar, hash, hashAt, status>>
serverVars == <<request, response>>

\* ----------------------------------------------------------------- parser
\* line 54: setup / control commands
IsControl(line) ==
  \/ StartsWith(line, <<"!", "Y">>)
  \/ line = <<"!", "C">>
  \/ StartsWith(line, <<"!", "V">>)
  \/ StartsWith(line, <<"!", "P">>)

\* lines 50-56 without the prefix test of line 58
SkipsSilentlyWithoutPrefixTest(line) ==
  \/ line = <<>>
  \/ StartsWith(line, <<"/", "/">>)
  \/ IsControl(line)

\* lines 50-60: the lines the loop passes over with continue
SkipsSilently(line) ==
  \/ line = <<>>
  \/ StartsWith(line, <<"/", "/">>)
  \/ IsControl(line)
  \/ ~StartsWith(line, <<"!", "F">>)

TextCommand(m, lineNo) ==
  [type |-> "text", x |-> Number(m.m2), y |-> Number(m.m1), orient |-> m.m3,
   fontId |-> Number(m.m4), xMul |-> Number(m.m5), yMul |-> Number(m.m6),
   value |-> m.m7, lineNo |-> lineNo]

LineCommand(m, lineNo) ==
  [type |-> "line", dir |-> m.m1, x |-> Number(m.m3), y |-> Number(m.m2),
   thickness |-> Number(m.m4), length |-> Number(m.m5), lineNo |-> lineNo]

BarcodeCommand(m, lineNo) ==
  [type |-> "barcode", x |-> Number(m.m2), y |-> Number(m.m1), orient |-> m.m3,
   height |-> Number(m.m4), module |-> Number(m.m5), extra |-> Number(m.m6),
   value |-> m.m7, lineNo |-> lineNo]

\* line 99 with the test left out
DirectionNeverRejected(dir) == TRUE

\* line 99: dir !== "N" && dir !== "E" is the rejected case
DirectionSupported(dir) == dir = "N" \/ dir = "E"

\* line 100: `Line ${i + 1}: unsupported !F B direction '${dir}' (only N/E rendered).`
DirectionWarning(lineNo, dir) ==
  [lineNo |-> lineNo, kind |-> "unsupported !F B direction", detail |-> <<dir>>]

\* line 143 reporting the trimmed line in place of raw
UnparsedWarningTrimmed(lineNo, raw, line) ==
  [lineNo |-> lineNo, kind |-> "unparsed/ignored command", detail |-> line]

\* line 143: `Line ${i + 1}: unparsed/ignored command: ${raw}`
UnparsedWarning(lineNo, raw, line) ==
  [lineNo |-> lineNo, kind |-> "unparsed/ignored command", detail |-> raw]

\* one iteration of the loop of parseFingerprintScript over lines[idx] (0-based
\* idx): the commands and the warnings it pushes
ProcessLine(raw, idx) ==
  LET line == Trim(raw)
      lineNo == idx + 1
      mt == MatchText(line)
      ml == MatchLine(line)
      mb == MatchBarcode(line)
      none == [cmds |-> <<>>, warns |-> <<>>]
  IN IF SkipsSilently(line) THEN none
     ELSE IF mt.matched THEN [cmds |-> <<TextCommand(mt, lineNo)>>, warns |-> <<>>]
     ELSE IF ml.matched
       THEN IF ~DirectionSupported(ml.m1)
              THEN [cmds |-> <<>>, warns |-> <<DirectionWarning(lineNo, ml.m1)>>]
              ELSE [cmds |-> <<LineCommand(ml, lineNo)>>, warns |-> <<>>]
     ELSE IF mb.matched THEN [cmds |-> <<BarcodeCommand(mb, lineNo)>>, warns |-> <<>>]
     ELSE [cmds |-> <<>>, warns |-> <<UnparsedWarning(lineNo, raw, line)>>]

\* the body of the for loop, lines 46-144
ParseLine ==
  /\ pc = "parse"
  /\ i < Len(lines)
  /\ LET r == ProcessLine(lines[i + 1], i)
     IN /\ commands' = commands \o r.cmds
        /\ warnings' = warnings \o r.warns
  /\ i' = i + 1
  /\ UNCHANGED <<text, lines, pc>>
  /\ UNCHANGED renderVars
  /\ UNCHANGED serverVars

\* line 146: return { commands, warnings }
ParseReturn ==
  /\ pc = "parse"
  /\ i = Len(lines)
  /\ pc' = "parsed"
  /\ UNCHANGED parserVars
  /\ UNCHANGED renderVars
  /\ UNCHANGED serverVars

\* ------------------------------------------------------- 32-bit arithmetic
\* A 32-bit word is <<hi, lo>>, its two 16-bit halves, so that no intermediate
\* value leaves the range of TLC's integers.
\* a ^ b of two values below 2^16, bit by bit
XorBit(a, b, p) == (((a \div p) + (b \div p)) % 2) * p

XorInt(a, b) ==
  XorBit(a, b, 1) + XorBit(a, b, 2) + XorBit(a, b, 4) + XorBit(a, b, 8)
    + XorBit(a, b, 16) + XorBit(a, b, 32) + XorBit(a, b, 64) + XorBit(a, b, 128)
    + XorBit(a, b, 256) + XorBit(a, b, 512) + XorBit(a, b, 1024) + XorBit(a, b, 2048)
    + XorBit(a, b, 4096) + XorBit(a, b, 8192) + XorBit(a, b, 16384) + XorBit(a, b, 32768)

XorWord(a, b) == <<XorInt(a[1], b[1]), XorInt(a[2], b[2])>>

\* w << 13, w >>> 17, w << 5 on 32 bits
Shl13(w) == <<(w[1] * 8192 + w[2] \div 8) % 65536, (w[2] * 8192) % 65536>>
Shr17(w) == <<0, w[1] \div 2>>
Shl5(w) == <<(w[1] * 32 + w[2] \div 2048) % 65536, (w[2] * 32) % 65536>>

\* Math.imul(h, 16777619): 16777619 = 256 * 65536 + 403
Imul16777619(h) ==
  LET low == h[2] * 403
  IN <<(h[1] * 403 + h[2] * 256 + low \div 65536) % 65536, low % 65536>>

\* str.charCodeAt(i) for the characters the barcode values use
CharCodes ==
  [c \in {"0","1","2","3","4","5","6","7","8","9"} |-> 48 + DigitValue(c)]
    @@ ("a" :> 97) @@ ("b" :> 98) @@ ("c" :> 99) @@ ("d" :> 100) @@ ("e" :> 101)
    @@ ("f" :> 102) @@ ("-" :> 45)

\* hashStringToInt, line 33: h = 2166136261 = 0x811C9DC5
HashBasis == <<33052, 40389>>

\* lines 35-36: h ^= str.charCodeAt(i); h = Math.imul(h, 16777619)
HashRound(h, c) == Imul16777619(XorWord(h, <<0, CharCodes[c]>>))

\* lines 248-250: one round of the generator
XorShift(state) ==
  LET s1 == XorWord(state, Shl13(state))
      s2 == XorWord(s1, Shr17(s1))
  IN XorWord(s2, Shl5(s2))

\* ----------------------------------------------------------------- render
\* clamp, lines 27-29: Math.max(min, Math.min(max, n))
Max(a, b) == IF a >= b THEN a ELSE b
Min(a, b) == IF a <= b THEN a ELSE b

\* the other nesting, Math.min(max, Math.max(min, n)), with which the upper bound wins
clampUpperWins(n, min, max) == Min(max, Max(min, n))

clamp(n, min, max) == Max(min, Min(max, n))

\* a || b on numbers: b when a is 0
OrElse(a, b) == IF a = 0 THEN b ELSE a

\* printerToCanvas, lines 149-155
printerToCanvas(xDots, yDots) == [x |-> xDots, y |-> LabelHeightDots - yDots]

\* lines 170-173 with north drawn downwards
LineEndNorthDown(cmd) ==
  IF cmd.dir = "E" THEN [x |-> cmd.x + cmd.length, y |-> cmd.y]
  ELSE [x |-> cmd.x, y |-> cmd.y - cmd.length]

\* lines 170-173: the end point of a line command, in printer coordinates
LineEnd(cmd) ==
  IF cmd.dir = "E" THEN [x |-> cmd.x + cmd.length, y |-> cmd.y]
  ELSE [x |-> cmd.x, y |-> cmd.y + cmd.length]

\* drawLineCommand, lines 169-187: the segment it strokes
drawLineCommand(cmd) ==
  LET end == LineEnd(cmd)
      p1 == printerToCanvas(cmd.x, cmd.y)
      p2 == printerToCanvas(end.x, end.y)
  IN [op |-> "line", lineNo |-> cmd.lineNo, x1 |-> p1.x, y1 |-> p1.y,
      x2 |-> p2.x, y2 |-> p2.y, lineWidth |-> Max(1, cmd.thickness)]

\* FONT_BASE_PX, lines 16-25, with the ?? 22 of line 192
FontBasePx(fontId) ==
  CASE fontId = 1 -> 18 [] fontId = 2 -> 22 [] fontId = 3 -> 28 [] fontId = 4 -> 34
    [] fontId = 5 -> 40 [] fontId = 6 -> 50 [] fontId = 7 -> 60 [] fontId = 8 -> 86
    [] OTHER -> 22

\* drawTextCommand, lines 189-212: the text it fills (none for an empty value);
\* the horizontal scale xMul / yMul is kept as numerator and denominator
drawTextCommand(cmd) ==
  LET p == printerToCanvas(cmd.x, cmd.y)
  IN IF cmd.value = <<>> THEN <<>>
     ELSE <<[op |-> "text", lineNo |-> cmd.lineNo, x |-> p.x, y |-> p.y,
             fontSize |-> FontBasePx(cmd.fontId) * OrElse(cmd.yMul, 1),
             scaleNum |-> OrElse(cmd.xMul, 1), scaleDen |-> OrElse(cmd.yMul, 1),
             weight |-> IF cmd.fontId >= 6 THEN 700 ELSE 600, value |-> cmd.value]>>

\* estimateBarcodeWidth, lines 214-221
estimateBarcodeWidth(cmd) ==
  LET module == Max(1, OrElse(cmd.module, 2))
      dataLen == Len(cmd.value)
      raw == Max(220, dataLen * module * 8)
  IN clamp(raw, 220, LabelWidthDots - cmd.x - 10)

\* drawBarcodePlaceholder, lines 224-237: the box it fills and strokes
BarcodeBox(cmd) ==
  LET p == printerToCanvas(cmd.x, cmd.y)
      height == Max(40, OrElse(cmd.height, 200))
  IN [op |-> "box", lineNo |-> cmd.lineNo, left |-> p.x, top |-> p.y - height,
      width |-> estimateBarcodeWidth(cmd), height |-> height]

\* line 246: the bar loop's guard
BarLoopContinues(x, b) == x < b.left + b.width - 6

\* line 253: 1 + ((state >>> 1) % Math.max(1, (cmd.module || 2) * 2))
BarWidth(state, cmd) ==
  1 + ((state[1] * 32768 + state[2] \div 2) % Max(1, OrElse(cmd.module, 2) * 2))

\* lines 263-272: the human-readable value under the box
BarcodeCaption(cmd, b) ==
  LET textY == b.top + b.height + 6
  IN IF cmd.value # <<>> /\ textY < LabelHeightDots - 4
     THEN <<[op |-> "caption", lineNo |-> cmd.lineNo, x |-> b.left, y |-> textY,
             value |-> cmd.value]>>
     ELSE <<>>

\* the three loops with the text loop first and the line loop last
PhaseOrderTextFirst == <<"texts", "barcodes", "lines">>

\* lines 298-307: the three loops of render, in the order they run
PhaseOrder == <<"lines", "barcodes", "texts">>

\* the command type each loop draws
PhaseType(phase) ==
  CASE phase = "lines" -> "line" [] phase = "barcodes" -> "barcode" [] phase = "texts" -> "text"

\* the position after phase: the next loop, or the return of render
AfterPhase(phase) ==
  LET n == CHOOSE j \in 1..Len(PhaseOrder) : PhaseOrder[j] = phase
  IN IF n < Len(PhaseOrder) THEN PhaseOrder[n + 1] ELSE "rendered"

\* the zoom slider's values, in percent, and window.devicePixelRatio || 1
ZoomPercents == {50, 100}
DevicePixelRatios == {1, 2}

NoBox == [op |-> "none"]
NoBar == [black |-> FALSE, x |-> 0, w |-> 0, lineNo |-> 0]

\* render, lines 277-296: size the canvas, get the context, clear, drawPaper
RenderStart ==
  /\ pc = "parsed"
  /\ \E zoom \in ZoomPercents, dpr \in DevicePixelRatios, hasContext \in BOOLEAN :
       /\ canvas' = [width |-> (LabelWidthDots * zoom * dpr) \div 100,
                     height |-> (LabelHeightDots * zoom * dpr) \div 100,
                     context |-> hasContext]
       /\ IF hasContext
            THEN /\ ops' = <<[op |-> "clear"], [op |-> "paper"]>>
                 /\ pc' = PhaseOrder[1]
            ELSE /\ ops' = ops
                 /\ pc' = "rendered"
  /\ k' = 1
  /\ UNCHANGED <<box, barX, barState, bar, hash, hashAt, status>>
  /\ UNCHANGED parserVars
  /\ UNCHANGED serverVars

\* one iteration of the line loop (lines 299-301) or the text loop (305-307)
RenderStep ==
  /\ pc \in {"lines", "texts"}
  /\ k <= Len(commands)
  /\ LET cmd == commands[k]
     IN ops' = IF cmd.type # PhaseType(pc) THEN ops
               ELSE IF cmd.type = "line" THEN Append(ops, drawLineCommand(cmd))
               ELSE ops \o drawTextCommand(cmd)
  /\ k' = k + 1
  /\ UNCHANGED <<pc, canvas, box, barX, barState, bar, hash, hashAt, status>>
  /\ UNCHANGED parserVars
  /\ UNCHANGED serverVars

\* one iteration of the barcode loop (lines 302-304) on a command of another type
RenderSkipBarcode ==
  /\ pc = "barcodes"
  /\ k <= Len(commands)
  /\ commands[k].type # PhaseType(pc)
  /\ k' = k + 1
  /\ UNCHANGED <<pc, canvas, ops, box, barX, barState, bar, hash, hashAt, status>>
  /\ UNCHANGED parserVars
  /\ UNCHANGED serverVars

\* drawBarcodePlaceholder, lines 223-240: the box, then the call of hashStringToInt
DrawBarcodeStart ==
  /\ pc = "barcodes"
  /\ k <= Len(commands)
  /\ commands[k].type = PhaseType(pc)
  /\ LET b == BarcodeBox(commands[k])
     IN /\ box' = b
        /\ ops' = Append(ops, b)
  /\ hash' = HashBasis
  /\ hashAt' = 0
  /\ pc' = "hash"
  /\ UNCHANGED <<canvas, k, barX, barState, bar, status>>
  /\ UNCHANGED parserVars
  /\ UNCHANGED serverVars

\* one iteration of hashStringToInt's loop, lines 34-37
HashStep ==
  /\ pc = "hash"
  /\ hashAt < Len(commands[k].value)
  /\ hash' = HashRound(hash, commands[k].value[hashAt + 1])
  /\ hashAt' = hashAt + 1
  /\ UNCHANGED <<pc, canvas, ops, k, box, barX, barState, bar, status>>
  /\ UNCHANGED parserVars
  /\ UNCHANGED serverVars

\* line 38, return h >>> 0, and lines 240-245: the bar loop's start
HashReturn ==
  /\ pc = "hash"
  /\ hashAt = Len(commands[k].value)
  /\ barState' = hash
  /\ barX' = box.left + 6
  /\ pc' = "bars"
  /\ UNCHANGED <<canvas, ops, k, box, bar, hash, hashAt, status>>
  /\ UNCHANGED parserVars
  /\ UNCHANGED serverVars

\* one iteration of the while loop, lines 246-260
BarStep ==
  /\ pc = "bars"
  /\ BarLoopContinues(barX, box)
  /\ LET state == XorShift(barState)
         barW == BarWidth(state, commands[k])
     IN /\ barState' = state
        /\ bar' = [black |-> state[2] % 2 = 0, x |-> barX, w |-> barW,
                   lineNo |-> commands[k].lineNo]
        /\ barX' = barX + barW
  /\ UNCHANGED <<pc, canvas, ops, k, box, hash, hashAt, status>>
  /\ UNCHANGED parserVars
  /\ UNCHANGED serverVars

\* the loop's exit, the caption (lines 262-272) and the return to render's loop
BarsDone ==
  /\ pc = "bars"
  /\ ~BarLoopContinues(barX, box)
  /\ ops' = ops \o BarcodeCaption(commands[k], box)
  /\ pc' = "barcodes"
  /\ k' = k + 1
  /\ UNCHANGED <<canvas, box, barX, barState, bar, hash, hashAt, status>>
  /\ UNCHANGED parserVars
  /\ UNCHANGED serverVars

\* the end of one of render's loops
PhaseDone ==
  /\ pc \in {"lines", "barcodes", "texts"}
  /\ k > Len(commands)
  /\ pc' = AfterPhase(pc)
  /\ k' = 1
  /\ UNCHANGED <<canvas, ops, box, barX, barState, bar, hash, hashAt, status>>
  /\ UNCHANGED parserVars
  /\ UNCHANGED serverVars

\* how many commands have type t (the reduce of lines 333-336)
CountType(t) == Cardinality({j \in 1..Len(commands) : commands[j].type = t})

\* doRender, lines 333-345: the summary and the first two warnings
SetStatus ==
  /\ pc = "rendered"
  /\ status' = [parsed |-> Len(commands), text |-> CountType("text"),
                lines |-> CountType("line"), barcode |-> CountType("barcode"),
                warnings |-> Len(warnings),
                shown |-> SubSeq(warnings, 1, Min(2, Len(warnings))),
                kind |-> IF Len(warnings) > 0 THEN "warn" ELSE "info"]
  /\ pc' = "done"
  /\ UNCHANGED <<canvas, ops, k, box, barX, barState, bar, hash, hashAt>>
  /\ UNCHANGED parserVars
  /\ UNCHANGED serverVars

\* ----------------------------------------------------------------- server
\* A path is a sequence of characters; "%2F" and "%5C" stand for the
\* three-character escapes of "/" and "\".
Slash == "/"
Backslash == "\\"

\* __dirname, the served root (line 6), and a directory beside it whose name
\* begins with the root's name
root == <<"/", "a">>

\* the pieces of s between separators, scanning from index n
RECURSIVE SegmentsFrom(_, _, _)
SegmentsFrom(s, n, buf) ==
  IF n > Len(s) THEN <<buf>>
  ELSE IF s[n] = Slash THEN <<buf>> \o SegmentsFrom(s, n + 1, <<>>)
  ELSE SegmentsFrom(s, n + 1, Append(buf, s[n]))

\* "/" + segments.join("/")
RECURSIVE JoinSegments(_)
JoinSegments(segs) ==
  IF segs = <<>> THEN <<>> ELSE <<Slash>> \o Head(segs) \o JoinSegments(Tail(segs))

DropLast(path) == IF path = <<>> THEN path ELSE SubSeq(path, 1, Len(path) - 1)

\* new URL(req.url, ...).pathname, line 28: the URL parser's path state for a
\* special scheme. s is the request target after its leading "/".
RECURSIVE UrlPath(_, _, _, _)
UrlPath(s, n, path, buf) ==
  IF n > Len(s) \/ s[n] \in {Slash, Backslash}
    THEN LET atEnd == n > Len(s)
             next == IF buf = <<".", ".">>
                       THEN IF atEnd THEN Append(DropLast(path), <<>>) ELSE DropLast(path)
                     ELSE IF buf = <<".">>
                       THEN IF atEnd THEN Append(path, <<>>) ELSE path
                     ELSE Append(path, buf)
         IN IF atEnd THEN next ELSE UrlPath(s, n + 1, next, <<>>)
    ELSE UrlPath(s, n + 1, path, Append(buf, s[n]))

UrlPathname(target) == JoinSegments(UrlPath(target, 2, <<>>, <<>>))

\* decodeURIComponent, line 30
DecodeChar(c) == IF c = "%2F" THEN Slash ELSE IF c = "%5C" THEN Backslash ELSE c

decodeURIComponent(s) == [n \in 1..Len(s) |-> DecodeChar(s[n])]

\* path.resolve of an absolute path: "", "." dropped, ".." removes the segment before it
RECURSIVE ResolveSegments(_, _)
ResolveSegments(segs, acc) ==
  IF segs = <<>> THEN acc
  ELSE LET seg == Head(segs)
       IN ResolveSegments(Tail(segs),
            IF seg = <<>> \/ seg = <<".">> THEN acc
            ELSE IF seg = <<".", ".">> THEN DropLast(acc)
            ELSE Append(acc, seg))

PathResolve(p) ==
  LET segs == ResolveSegments(SegmentsFrom(p, 1, <<>>), <<>>)
  IN IF segs = <<>> THEN <<Slash>> ELSE JoinSegments(segs)

\* line 23: the containment test
Contained(resolved, base) == StartsWith(resolved, PathResolve(base))

\* safeJoin, lines 20-25; null is <<>>
safeJoin(base, target) ==
  LET targetPath == <<".">> \o [n \in 1..Len(target) |-> IF target[n] = Backslash THEN Slash ELSE target[n]]
      resolved == PathResolve(base \o <<Slash>> \o targetPath)
  IN IF ~Contained(resolved, base) THEN <<>> ELSE resolved

\* line 29: '/index.html', its file name kept as one piece
IndexHtml == <<"/", "index.html">>

\* lines 28-36: the handler up to fs.stat
HandleRequest ==
  /\ response = [status |-> "none"]
  /\ LET urlPathname == UrlPathname(request)
         pathname == IF urlPathname = <<Slash>> THEN IndexHtml ELSE urlPathname
         filePath == safeJoin(root, decodeURIComponent(pathname))
     IN response' = IF filePath = <<>> THEN [status |-> "403"]
                    ELSE [status |-> "stat", filePath |-> filePath]
  /\ UNCHANGED request
  /\ UNCHANGED <<pc>>
  /\ UNCHANGED parserVars
  /\ UNCHANGED renderVars

\* lines 38-51: the fs.stat callback; whether the path is a file is the file system's choice
StatCallback ==
  /\ response.status = "stat"
  /\ \E isFile \in BOOLEAN :
       response' = [status |-> IF isFile THEN "200" ELSE "404", filePath |-> response.filePath]
  /\ UNCHANGED request
  /\ UNCHANGED <<pc>>
  /\ UNCHANGED parserVars
  /\ UNCHANGED renderVars

\* ----------------------------------------------------------------- inputs
\* Script lines: the shapes of SAMPLE_INPUT (lines 355-448) and of the
\* README's supported and ignored commands, and near misses of each pattern.
\*   
LnBlank == <<" "," ">>
\* //IKEA CDU
LnComment == <<"/","/","I","K","E","A"," ","C","D","U">>
\*  // note
LnIndentedComment == <<" ","/","/"," ","n","o","t","e">>
\* !Y42 0
LnCtlY == <<"!","Y","4","2"," ","0">>
\* !C
LnCtlC == <<"!","C">>
\* !V3194
LnCtlV == <<"!","V","3","1","9","4">>
\* !P 1
LnCtlP == <<"!","P"," ","1">>
\* ^XA
LnOther == <<"^","X","A">>
\* !F X Y Z
LnUnknownF == <<"!","F"," ","X"," ","Y"," ","Z">>
\*  !F X Y Z<TAB>
LnUnknownFPadded == <<" ","!","F"," ","X"," ","Y"," ","Z","\t">>
\* !F B N 1725 960 L 10 50
LnLineN == <<"!","F"," ","B"," ","N"," ","1","7","2","5"," ","9","6","0"," ","L"," ","1","0"," ","5","0">>
\* !F B E 40 1675 L 10 50
LnLineE == <<"!","F"," ","B"," ","E"," ","4","0"," ","1","6","7","5"," ","L"," ","1","0"," ","5","0">>
\* !F B S 757 50 L 5 990
LnLineS == <<"!","F"," ","B"," ","S"," ","7","5","7"," ","5","0"," ","L"," ","5"," ","9","9","0">>
\* <TAB>!F B W -5 -7 L 0 0
LnLineW == <<"\t","!","F"," ","B"," ","W"," ","-","5"," ","-","7"," ","L"," ","0"," ","0">>
\* !F B n 757 50 L 5 990
LnLineLower == <<"!","F"," ","B"," ","n"," ","7","5","7"," ","5","0"," ","L"," ","5"," ","9","9","0">>
\* !F B N 1 2 L 3
LnLineShort == <<"!","F"," ","B"," ","N"," ","1"," ","2"," ","L"," ","3">>
\* !F T S 1737 990 L 2 1 1 "Tel:"
LnText == <<"!","F"," ","T"," ","S"," ","1","7","3","7"," ","9","9","0"," ","L"," ","2"," ","1"," ","1"," ","\"","T","e","l",":","\"">>
\* !F T S -5 -10 L 9 0 0 ""
LnTextNeg == <<"!","F"," ","T"," ","S"," ","-","5"," ","-","1","0"," ","L"," ","9"," ","0"," ","0"," ","\"","\"">>
\* !F T S 1 2 L 2 1 1 "a" x
LnTextTrail == <<"!","F"," ","T"," ","S"," ","1"," ","2"," ","L"," ","2"," ","1"," ","1"," ","\"","a","\""," ","x">>
\* !F C S 424 922 L 310 4 41  "1496046443592403759"
LnBarcode == <<"!","F"," ","C"," ","S"," ","4","2","4"," ","9","2","2"," ","L"," ","3","1","0"," ","4"," ","4","1"," "," ","\"","1","4","9","6","0","4","6","4","4","3","5","9","2","4","0","3","7","5","9","\"">>
\* !F C S -1 -2 R 0 0 0 "-"
LnBarcodeNeg == <<"!","F"," ","C"," ","S"," ","-","1"," ","-","2"," ","R"," ","0"," ","0"," ","0"," ","\"","-","\"">>
\* !F B N 10 20 L -3 4
LnLineNegThick == <<"!","F"," ","B"," ","N"," ","1","0"," ","2","0"," ","L"," ","-","3"," ","4">>
\* !F C S 100 1620 L 310 4 41 "12345678901234567890"
LnBarcodeEdge == <<"!","F"," ","C"," ","S"," ","1","0","0"," ","1","6","2","0"," ","L"," ","3","1","0"," ","4"," ","4","1"," ","\"","1","2","3","4","5","6","7","8","9","0","1","2","3","4","5","6","7","8","9","0","\"">>
\* !F C S 1970 40 L 0 40 41 "42c5cb"
LnBarcodeWide == <<"!","F"," ","C"," ","S"," ","1","9","7","0"," ","4","0"," ","L"," ","0"," ","4","0"," ","4","1"," ","\"","4","2","c","5","c","b","\"">>
\* !F C S 1970 1300 L 220 40 41 "42c5cb"
LnBarcodeNarrow == <<"!","F"," ","C"," ","S"," ","1","9","7","0"," ","1","3","0","0"," ","L"," ","2","2","0"," ","4","0"," ","4","1"," ","\"","4","2","c","5","c","b","\"">>
\* !F C S 300 1500 L 20 0 0 ""
LnBarcodeEmpty == <<"!","F"," ","C"," ","S"," ","3","0","0"," ","1","5","0","0"," ","L"," ","2","0"," ","0"," ","0"," ","\"","\"">>
\* !F T S 1739 935 L 1 1 3 ""
LnTextEmpty == <<"!","F"," ","T"," ","S"," ","1","7","3","9"," ","9","3","5"," ","L"," ","1"," ","1"," ","3"," ","\"","\"">>
\* !F T S 1000 990 L 8 4 3 "ILSE"
LnTextBig == <<"!","F"," ","T"," ","S"," ","1","0","0","0"," ","9","9","0"," ","L"," ","8"," ","4"," ","3"," ","\"","I","L","S","E","\"">>

\* the lines the parser-only specification draws its scripts from
ParserPool ==
  {LnBlank, LnComment, LnIndentedComment, LnCtlY, LnCtlC,
   LnCtlV, LnCtlP, LnOther, LnUnknownF, LnUnknownFPadded,
   LnLineN, LnLineE, LnLineS, LnLineW, LnLineLower,
   LnLineShort, LnText, LnTextNeg, LnTextTrail, LnBarcode,
   LnBarcodeNeg, LnLineNegThick}

\* the lines the parse-and-render specification draws its longer scripts from
RenderPool == {LnLineN, LnBarcodeNarrow, LnText, LnTextEmpty}

\* the lines it draws its one-line scripts from
DetailPool ==
  {LnLineN, LnLineE, LnLineS, LnLineW, LnUnknownF,
   LnBarcode, LnBarcodeEdge, LnBarcodeWide, LnBarcodeNarrow, LnBarcodeEmpty, LnBarcodeNeg,
   LnText, LnTextNeg, LnTextEmpty, LnTextBig}

\* the line terminators split(/\r?\n/) recognises
Terminators == {<<"\n">>, <<"\r", "\n">>}

\* ls joined by the terminator sep
RECURSIVE JoinLines(_, _)
JoinLines(ls, sep) ==
  IF ls = <<>> THEN <<>>
  ELSE IF Len(ls) = 1 THEN ls[1]
  ELSE ls[1] \o sep \o JoinLines(Tail(ls), sep)

\* every script of at most n lines of pool, joined by one of the terminators seps
Scripts(pool, n, seps) ==
  {JoinLines(ls, sep) : ls \in UNION {[1..m -> pool] : m \in 0..n}, sep \in seps}

\* the request targets: "/" followed by at most MaxPath characters. A target
\* that begins "//" or "/\" is parsed as naming a host, not a path, and is
\* left out.
PathChars == {"/", "\\", ".", "a", "b", "%2F", "%5C"}
Requests ==
  {<<Slash>> \o t : t \in {u \in UNION {[1..m -> PathChars] : m \in 0..MaxPath} :
                                u = <<>> \/ u[1] \notin {Slash, Backslash}}}

\* -------------------------------------------------------- specifications
\* the state at the entry of parseFingerprintScript's loop, for a script of scripts
InitApp(scripts) ==
  /\ text \in scripts
  /\ lines = SplitLines(text)
  /\ i = 0
  /\ commands = <<>>
  /\ warnings = <<>>
  /\ pc = "parse"
  /\ canvas = [width |-> 300, height |-> 150, context |-> FALSE]
  /\ ops = <<>>
  /\ k = 1
  /\ box = NoBox
  /\ barX = 0
  /\ barState = <<0, 0>>
  /\ bar = NoBar
  /\ hash = <<0, 0>>
  /\ hashAt = 0
  /\ status = [kind |-> "none"]
  /\ request = <<Slash>>
  /\ response = [status |-> "off"]

\* doRender (lines 326-346) on a script: parse, render, set the status
Init ==
  InitApp(Scripts(RenderPool, MaxRenderLines, {<<"\n">>}) \cup Scripts(DetailPool, 1, {<<"\n">>}))

Next ==
  \/ ParseLine
  \/ ParseReturn
  \/ RenderStart
  \/ RenderStep
  \/ RenderSkipBarcode
  \/ DrawBarcodeStart
  \/ HashStep
  \/ HashReturn
  \/ BarStep
  \/ BarsDone
  \/ PhaseDone
  \/ SetStatus

Spec == Init /\ [][Next]_vars

\* parseFingerprintScript alone, on a wider set of scripts
InitParser == InitApp(Scripts(ParserPool, MaxLines, Terminators))

NextParser == ParseLine \/ ParseReturn

SpecParser == InitParser /\ [][NextParser]_vars

\* the static server handling one request
InitServer ==
  /\ request \in Requests
  /\ response = [status |-> "none"]
  /\ text = <<>>
  /\ lines = <<>>
  /\ i = 0
  /\ commands = <<>>
  /\ warnings = <<>>
  /\ pc = "off"
  /\ canvas = [width |-> 300, height |-> 150, context |-> FALSE]
  /\ ops = <<>>
  /\ k = 1
  /\ box = NoBox
  /\ barX = 0
  /\ barState = <<0, 0>>
  /\ bar = NoBar
  /\ hash = <<0, 0>>
  /\ hashAt = 0
  /\ status = [kind |-> "none"]

NextServer == HandleRequest \/ StatCallback

SpecServer == InitServer /\ [][NextServer]_vars

\* ------------------------------------------------------------ properties
\* the commands and the warnings that carry source line number n
CommandsAt(n) == {j \in 1..Len(commands) : commands[j].lineNo = n}
WarningsAt(n) == {j \in 1..Len(warnings) : warnings[j].lineNo = n}

\* the command parsed from source line n
CommandOf(n) == commands[CHOOSE j \in 1..Len(commands) : commands[j].lineNo = n]

BangF == <<"!", "F">>

\* C1: every processed line whose trimmed text has the Line shape yields, when
\* its direction is N or E, exactly one command, of type line with that
\* direction, and no warning; and with any other direction letter exactly one
\* warning, carrying the line's 1-based number and the direction, and no
\* command. Every line command has dir N or E.
C1_DirectionValidation ==
  /\ \A n \in 1..i :
       LET m == MatchLine(Trim(lines[n]))
       IN m.matched =>
            IF m.m1 \in {"N", "E"}
              THEN /\ Cardinality(CommandsAt(n)) = 1
                   /\ CommandOf(n).type = "line"
                   /\ CommandOf(n).dir = m.m1
                   /\ WarningsAt(n) = {}
              ELSE /\ CommandsAt(n) = {}
                   /\ Cardinality(WarningsAt(n)) = 1
                   /\ \A j \in WarningsAt(n) :
                        /\ warnings[j].kind = "unsupported !F B direction"
                        /\ warnings[j].detail = <<m.m1>>
  /\ \A j \in 1..Len(commands) :
       commands[j].type = "line" => commands[j].dir \in {"N", "E"}

\* C1 witness: a parse has finished in which a Line-shaped line with direction
\* S or W left its warning and a Line-shaped line with N or E left its command
C1_Witness ==
  /\ pc = "parsed"
  /\ \E n \in 1..i :
       /\ MatchLine(Trim(lines[n])).matched
       /\ MatchLine(Trim(lines[n])).m1 \in {"S", "W"}
       /\ WarningsAt(n) # {}
  /\ \E n \in 1..i :
       /\ MatchLine(Trim(lines[n])).matched
       /\ MatchLine(Trim(lines[n])).m1 \in {"N", "E"}
       /\ CommandsAt(n) # {}

\* the trimmed text matches none of the three patterns
MatchesNoShape(line) ==
  ~MatchText(line).matched /\ ~MatchLine(line).matched /\ ~MatchBarcode(line).matched

\* C2: every processed line whose trimmed text starts with !F and matches none
\* of the three shapes yields exactly one warning, carrying the line's 1-based
\* number and the original untrimmed text, and no command; and the parse goes
\* on to the end of the script.
C2_UnparsedLineReported ==
  /\ \A n \in 1..i :
       (StartsWith(Trim(lines[n]), BangF) /\ MatchesNoShape(Trim(lines[n]))) =>
         /\ CommandsAt(n) = {}
         /\ Cardinality(WarningsAt(n)) = 1
         /\ \A j \in WarningsAt(n) :
              /\ warnings[j].kind = "unparsed/ignored command"
              /\ warnings[j].detail = lines[n]
  /\ pc = "parsed" => i = Len(lines)

\* C2 witness: a finished parse in which an unmatched !F line padded with
\* white space left its warning and the line after it left a command
C2_Witness ==
  /\ pc = "parsed"
  /\ \E n \in 1..(i - 1) :
       /\ StartsWith(Trim(lines[n]), BangF)
       /\ MatchesNoShape(Trim(lines[n]))
       /\ Trim(lines[n]) # lines[n]
       /\ WarningsAt(n) # {}
       /\ CommandsAt(n + 1) # {}

\* the line, trimmed, is one the parser is to pass over
Ignorable(line) ==
  \/ line = <<>>
  \/ StartsWith(line, <<"/", "/">>)
  \/ StartsWith(line, <<"!", "Y">>)
  \/ StartsWith(line, <<"!", "V">>)
  \/ StartsWith(line, <<"!", "P">>)
  \/ line = <<"!", "C">>
  \/ ~StartsWith(line, BangF)

\* C3: every processed line that, trimmed, is empty, starts with //, is a
\* control command (!Y.., !V.., !P.., or exactly !C) or does not start with !F
\* yields neither a command nor a warning, whatever the other lines are.
C3_IgnoredLinesLeaveNothing ==
  \A n \in 1..i :
    Ignorable(Trim(lines[n])) => CommandsAt(n) = {} /\ WarningsAt(n) = {}

\* C3 witness: a finished parse of a line that starts with neither !F nor a
\* control prefix nor //, next to a line that left a command or a warning
C3_Witness ==
  /\ pc = "parsed"
  /\ \E n \in 1..i :
       /\ Trim(lines[n]) # <<>>
       /\ Trim(lines[n])[1] # "!"
       /\ ~StartsWith(Trim(lines[n]), <<"/", "/">>)
  /\ Len(commands) + Len(warnings) > 0

\* the numeric fields of a command other than x and y
OtherNumbers(c) ==
  IF c.type = "text" THEN {c.fontId, c.xMul, c.yMul}
  ELSE IF c.type = "line" THEN {c.thickness, c.length}
  ELSE {c.height, c.module, c.extra}

\* C4 as stated: every numeric field of every command, x and y included, is a
\* non-negative integer.
C4_AllFieldsNonNegative ==
  \A j \in 1..Len(commands) :
    /\ commands[j].x \in Nat
    /\ commands[j].y \in Nat
    /\ OtherNumbers(commands[j]) \subseteq Nat

\* C4 amended: x and y of every command are integers, of either sign; every
\* other numeric field is a non-negative integer.
C4_OnlyCoordinatesMayBeNegative ==
  \A j \in 1..Len(commands) :
    /\ commands[j].x \in Int
    /\ commands[j].y \in Int
    /\ OtherNumbers(commands[j]) \subseteq Nat

\* C4 witness: a command with a negative x and a negative y has been parsed
C4_Witness ==
  \E j \in 1..Len(commands) : commands[j].x < 0 /\ commands[j].y < 0

\* the boxes drawn so far
Boxes == {j \in 1..Len(ops) : ops[j].op = "box"}

\* C5: the width of every barcode box drawn lies in [220, 1624 - x - 10], so
\* that the box ends at or before 1624 - 10.
C5_BarcodeWidthInClampRange ==
  \A j \in Boxes :
    /\ ops[j].width >= 220
    /\ ops[j].width <= 1624 - CommandOf(ops[j].lineNo).x - 10
    /\ ops[j].left + ops[j].width <= 1624 - 10

C7_LineEndpoints ==
  \A j \in 1..Len(ops) :
    ops[j].op = "line" =>
      LET c == CommandOf(ops[j].lineNo)
      IN /\ ops[j].x1 = c.x
         /\ ops[j].y1 = 2436 - c.y
         /\ c.dir = "N" => ops[j].x2 = c.x /\ ops[j].y2 = 2436 - c.y - c.length
         /\ c.dir = "E" => ops[j].x2 = c.x + c.length /\ ops[j].y2 = 2436 - c.y
         /\ lines[ops[j].lineNo] = LnLineN =>
              <<ops[j].x1, ops[j].y1, ops[j].x2, ops[j].y2>> = <<960, 711, 960, 661>>

\* C7 witness: the segment of `!F B N 1725 960 L 10 50` has been drawn
C7_Witness ==
  \E j \in 1..Len(ops) :
    /\ ops[j].op = "line"
    /\ lines[ops[j].lineNo] = LnLineN
    /\ ops[j].y2 = 661

\* the layer of a drawing operation: background, lines, barcodes, texts
Layer(o) ==
  CASE o.op \in {"clear", "paper"} -> 0
    [] o.op = "line" -> 1
    [] o.op \in {"box", "caption"} -> 2
    [] o.op = "text" -> 3

\* C8: in the operations a render with a context issues, the background comes
\* first, no barcode precedes a line, no text precedes a line or a barcode,
\* commands of one type are drawn in parse order and none twice; when render
\* returns, every line and barcode command and every text command with a
\* value has been drawn.
C8_DrawOrder ==
  /\ ops # <<>> => ops[1].op = "clear" /\ ops[2].op = "paper"
  /\ \A a, b \in 1..Len(ops) :
       a < b =>
         /\ Layer(ops[a]) <= Layer(ops[b])
         /\ b > 2 => Layer(ops[b]) > 0
         /\ (Layer(ops[a]) > 0 /\ ops[a].op = ops[b].op) => ops[a].lineNo < ops[b].lineNo
  /\ (pc \in {"rendered", "done"} /\ canvas.context) =>
       \A j \in 1..Len(commands) :
         LET c == commands[j]
             drawn == {o \in 1..Len(ops) : Layer(ops[o]) > 0 /\ ops[o].lineNo = c.lineNo}
         IN IF c.type = "text" /\ c.value = <<>> THEN drawn = {}
            ELSE \E o \in drawn :
                   ops[o].op = (IF c.type = "barcode" THEN "box" ELSE c.type)

\* C8 witness: a finished render of a script whose first line is a text, whose
\* second is a barcode and whose third is a line, all three drawn
C8_Witness ==
  /\ pc = "done"
  /\ \E a, b, c \in 1..Len(ops) :
       /\ ops[a].op = "line" /\ ops[a].lineNo = 3
       /\ ops[b].op = "box" /\ ops[b].lineNo = 2
       /\ ops[c].op = "text" /\ ops[c].lineNo = 1

\* C9: every bar the loop produces has a width in [1, module * 2] (module 2
\* when the command's is 0), and every painted bar lies between left + 6 and
\* left + width - 6.
C9_BarsInsideBox ==
  (bar.w > 0 /\ bar.lineNo = box.lineNo) =>
    /\ bar.w >= 1
    /\ bar.w <= OrElse(CommandOf(bar.lineNo).module, 2) * 2
    /\ bar.black => /\ bar.x >= box.left + 6
                    /\ bar.x + bar.w <= box.left + box.width - 6

\* C10: the server stats and streams only the served root or a path below it.
C10_ServedPathInsideRoot ==
  response.status \in {"stat", "200", "404"} =>
    \/ response.filePath = root
    \/ StartsWith(response.filePath, root \o <<Slash>>)
====
